---- MODULE Spec2Model ----
(***************************************************************************)
(* Model of zaza/openstack/utilities/upgrade_utils.py: the upgrade-group   *)
(* planner (get_upgrade_groups, get_series_upgrade_groups,                 *)
(* get_charm_upgrade_groups) and charm-name extraction; and of the process *)
(* id helpers of zaza/openstack/utilities/generic.py that                  *)
(* unit_tests/utilities/test_zaza_utilities_generic.py exercises.          *)
(*                                                                         *)
(* A Python str is a sequence of one-character strings, so that split,     *)
(* re.sub, "in" and the ordering used by list.sort are computed character  *)
(* by character as the interpreter computes them.                          *)
(***************************************************************************)
EXTENDS Integers, Sequences, FiniteSets, TLC

VARIABLES
    deployed,    \* the Juju model: ordered applications with their status and config
    call,        \* the last entry point called and its extra_filters argument
    filters,     \* the filter chain the last call built
    calls,       \* the calls the last call made to zaza.model and to its filters
    candidates,  \* apps_in_model of the last call (get_upgrade_candidates' result)
    result,      \* what the last call returned or raised
    extracted,   \* the last extract_charm_name_from_url call: its argument and result
    earlier,     \* an earlier call a caller kept: its arguments and what it returned
    validated,   \* the validate_unit_process_ids call: its arguments and outcome
    pid_list     \* the get_process_id_list call: the remote result and its outcome

vars == <<deployed, call, filters, calls, candidates, result, extracted,
          earlier, validated, pid_list>>

----------------------------------------------------------------------------
(* Bounds of the model *)

\* at most this many applications in the status snapshot
MaxApps == 2

\* charm URLs of up to this many characters are enumerated exhaustively
MaxUrlLen == 5

\* a process of a unit has at most this many PIDs
MaxPids == 3

\* the standard output of the remote pidof has at most this many characters
MaxStdoutLen == 4

----------------------------------------------------------------------------
(* Python str *)

\* the characters used, in ascending code point order: - / 0-9 : a-z ~
CharOrder ==
    <<"-", "/", "0", "1", "2", "3", "4", "5", "6", "7", "8", "9", ":",
      "a", "b", "c", "d", "e", "f", "g", "h", "i", "j", "k", "l", "m",
      "n", "o", "p", "q", "r", "s", "t", "u", "v", "w", "x", "y", "z", "~">>

Digits == {"0", "1", "2", "3", "4", "5", "6", "7", "8", "9"}

Ord(c) == CHOOSE i \in 1..Len(CharOrder) : CharOrder[i] = c

\* s < t for two str: the first differing character decides, a proper prefix is smaller
StrLess(s, t) ==
    \E i \in 1..(Len(t)) :
        /\ \A j \in 1..(i - 1) : j <= Len(s) /\ s[j] = t[j]
        /\ \/ i = Len(s) + 1
           \/ i <= Len(s) /\ Ord(s[i]) < Ord(t[i])

\* sub in s, for two str
Contains(s, sub) ==
    \E i \in 0..(Len(s) - Len(sub)) : SubSeq(s, i + 1, i + Len(sub)) = sub

\* the index of the last occurrence of character c in s, 0 when there is none
LastIndexOf(s, c) ==
    LET at == {i \in 1..Len(s) : s[i] = c}
    IN  IF at = {} THEN 0 ELSE CHOOSE i \in at : \A j \in at : j <= i

\* s.split(c)[-1]
SplitLast(s, c) == SubSeq(s, LastIndexOf(s, c) + 1, Len(s))

\* re.sub(r'-[0-9]+$', '', s): the only possible match starts at the last '-',
\* and needs one or more digits and nothing else up to the end of s (the str here
\* hold no newline, before which $ would match too)
ReSubRevision(s) ==
    LET i == LastIndexOf(s, "-")
    IN  IF /\ i > 0
           /\ i < Len(s)
           /\ \A j \in (i + 1)..Len(s) : s[j] \in Digits
        THEN SubSeq(s, 1, i - 1)
        ELSE s

\* extract_charm_name_from_url without the re.sub
extract_charm_name_keeps_revision(charm_url) ==
    SplitLast(SplitLast(charm_url, "/"), ":")

extract_charm_name_from_url(charm_url) ==
    LET charm_name == ReSubRevision(SplitLast(charm_url, "/"))
    IN  SplitLast(charm_name, ":")

----------------------------------------------------------------------------
(* str literals *)

s_percona_cluster == <<"p", "e", "r", "c", "o", "n", "a", "-", "c", "l", "u", "s", "t", "e", "r">>
s_mysql_innodb_cluster == <<"m", "y", "s", "q", "l", "-", "i", "n", "n", "o", "d", "b", "-", "c", "l", "u", "s", "t", "e", "r">>
s_rabbitmq_server == <<"r", "a", "b", "b", "i", "t", "m", "q", "-", "s", "e", "r", "v", "e", "r">>
s_ceph_mon == <<"c", "e", "p", "h", "-", "m", "o", "n">>
s_keystone == <<"k", "e", "y", "s", "t", "o", "n", "e">>
s_aodh == <<"a", "o", "d", "h">>
s_barbican == <<"b", "a", "r", "b", "i", "c", "a", "n">>
s_ceilometer == <<"c", "e", "i", "l", "o", "m", "e", "t", "e", "r">>
s_ceph_fs == <<"c", "e", "p", "h", "-", "f", "s">>
s_ceph_radosgw == <<"c", "e", "p", "h", "-", "r", "a", "d", "o", "s", "g", "w">>
s_cinder == <<"c", "i", "n", "d", "e", "r">>
s_designate == <<"d", "e", "s", "i", "g", "n", "a", "t", "e">>
s_designate_bind == <<"d", "e", "s", "i", "g", "n", "a", "t", "e", "-", "b", "i", "n", "d">>
s_glance == <<"g", "l", "a", "n", "c", "e">>
s_gnocchi == <<"g", "n", "o", "c", "c", "h", "i">>
s_heat == <<"h", "e", "a", "t">>
s_manila == <<"m", "a", "n", "i", "l", "a">>
s_manila_generic == <<"m", "a", "n", "i", "l", "a", "-", "g", "e", "n", "e", "r", "i", "c">>
s_neutron_api == <<"n", "e", "u", "t", "r", "o", "n", "-", "a", "p", "i">>
s_neutron_gateway == <<"n", "e", "u", "t", "r", "o", "n", "-", "g", "a", "t", "e", "w", "a", "y">>
s_placement == <<"p", "l", "a", "c", "e", "m", "e", "n", "t">>
s_nova_cloud_controller == <<"n", "o", "v", "a", "-", "c", "l", "o", "u", "d", "-", "c", "o", "n", "t", "r", "o", "l", "l", "e", "r">>
s_openstack_dashboard == <<"o", "p", "e", "n", "s", "t", "a", "c", "k", "-", "d", "a", "s", "h", "b", "o", "a", "r", "d">>
s_nova_compute == <<"n", "o", "v", "a", "-", "c", "o", "m", "p", "u", "t", "e">>
s_ceph_osd == <<"c", "e", "p", "h", "-", "o", "s", "d">>
s_swift_proxy == <<"s", "w", "i", "f", "t", "-", "p", "r", "o", "x", "y">>
s_swift_storage == <<"s", "w", "i", "f", "t", "-", "s", "t", "o", "r", "a", "g", "e">>
s_easyrsa == <<"e", "a", "s", "y", "r", "s", "a">>
s_etcd == <<"e", "t", "c", "d">>
s_memcached == <<"m", "e", "m", "c", "a", "c", "h", "e", "d">>
s_nova == <<"n", "o", "v", "a">>
s_cs == <<"c", "s">>
s_local == <<"l", "o", "c", "a", "l">>
s_bionic == <<"b", "i", "o", "n", "i", "c">>
s_containers == <<"~", "c", "o", "n", "t", "a", "i", "n", "e", "r", "s">>

\* scheme:series/name-revision, scheme:series/name, scheme:name-revision, scheme:name
\* (series or revision "" when the URL has none)
CharmUrl(scheme, series, name, revision) ==
    scheme \o <<":">>
      \o (IF series = <<>> THEN <<>> ELSE series \o <<"/">>)
      \o name
      \o (IF revision = <<>> THEN <<>> ELSE <<"-">> \o revision)

url_keystone == CharmUrl(s_cs, <<>>, s_keystone, <<"3", "0", "9">>)
url_heat == CharmUrl(s_local, s_bionic, s_heat, <<"1", "2">>)
url_cs_heat == CharmUrl(s_cs, <<>>, s_heat, <<>>)
url_rabbitmq == CharmUrl(s_cs, <<>>, s_rabbitmq_server, <<"9", "7">>)
url_ceph_mon == CharmUrl(s_cs, <<>>, s_ceph_mon, <<>>)
url_easyrsa == CharmUrl(s_cs, s_containers, s_easyrsa, <<"2", "7", "8">>)
url_percona_cluster == CharmUrl(s_cs, <<>>, s_percona_cluster, <<"2", "9", "3">>)
url_mysql_innodb_cluster == CharmUrl(s_cs, <<>>, s_mysql_innodb_cluster, <<"1", "5">>)

----------------------------------------------------------------------------
(* Python values *)

\* x in l, for a list l
InList(x, l) == \E i \in 1..Len(l) : l[i] = x

\* the keys of an ordered mapping (a sequence of entries with field app), in order
RECURSIVE Keys(_)
Keys(entries) ==
    IF entries = <<>> THEN <<>> ELSE <<Head(entries).app>> \o Keys(Tail(entries))

ToSet(l) == {l[i] : i \in 1..Len(l)}

PyNone == [type |-> "NoneType", items |-> <<>>]

\* bool(v) of an extra_filters argument: None, [] and () are false, a function is true
Truthy(v) ==
    CASE v.type = "NoneType" -> FALSE
      [] v.type = "function" -> TRUE
      [] OTHER -> v.items # <<>>

\* list.sort() of a list of str: every element put in its place among the sorted
\* elements after it
RECURSIVE SortedInsert(_, _)
SortedInsert(x, l) ==
    IF l = <<>>
    THEN <<x>>
    ELSE IF StrLess(Head(l), x)
         THEN <<Head(l)>> \o SortedInsert(x, Tail(l))
         ELSE <<x>> \o l

RECURSIVE ListSort(_)
ListSort(l) ==
    IF l = <<>> THEN <<>> ELSE SortedInsert(Head(l), ListSort(Tail(l)))

----------------------------------------------------------------------------
(* Module constants *)

SERVICE_GROUPS ==
    << <<"Database Services", <<s_percona_cluster, s_mysql_innodb_cluster>> >>,
       <<"Stateful Services", <<s_rabbitmq_server, s_ceph_mon>> >>,
       <<"Core Identity", <<s_keystone>> >>,
       <<"Control Plane",
         <<s_aodh, s_barbican, s_ceilometer, s_ceph_fs,
           s_ceph_radosgw, s_cinder, s_designate,
           s_designate_bind, s_glance, s_gnocchi, s_heat, s_manila,
           s_manila_generic, s_neutron_api, s_neutron_gateway, s_placement,
           s_nova_cloud_controller, s_openstack_dashboard>> >>,
       <<"Data Plane",
         <<s_nova_compute, s_ceph_osd,
           s_swift_proxy, s_swift_storage>> >> >>

UPGRADE_EXCLUDE_LIST == <<s_rabbitmq_server, s_percona_cluster>>

----------------------------------------------------------------------------
(* zaza.model: the external collaborator, answered from the deployed model *)

\* zaza.model.get_status(...).applications: app -> app_config, in the model's order
get_status == deployed

\* zaza.model.get_application_config(app).keys()
get_application_config(app) ==
    LET i == CHOOSE i \in 1..Len(deployed) : deployed[i].app = app
    IN  deployed[i].options

----------------------------------------------------------------------------
(* Exceptions of the charm lookup *)

\* extract_charm_name_from_url(app_config['charm']): the exception it raises, "none"
\* when it returns. The subscript raises KeyError when the mapping has no 'charm',
\* and None has no split.
CharmRaises(app_config) ==
    CASE app_config.charm_type = "missing" -> "KeyError"
      [] app_config.charm_type = "NoneType" -> "AttributeError"
      [] OTHER -> "none"

\* the exception a call of filt raises: the filters that read the charm name raise
\* what the lookup raises
FilterRaises(filt, app_config) ==
    IF filt \in {"_filter_openstack_upgrade_list", "_filter_easyrsa",
                 "_filter_etcd", "_filter_memcached"}
    THEN CharmRaises(app_config)
    ELSE "none"

----------------------------------------------------------------------------
(* Filters: TRUE excludes the application *)

_filter_subordinates(app, app_config) ==
    app_config.subordinate_to # <<>>

\* the exclude-list filter that looks at the charm name only
_filter_openstack_upgrade_list_charm_name_only(app, app_config) ==
    LET charm_name == extract_charm_name_from_url(app_config.charm)
    IN  InList(charm_name, UPGRADE_EXCLUDE_LIST)

_filter_openstack_upgrade_list(app, app_config) ==
    LET charm_name == extract_charm_name_from_url(app_config.charm)
    IN  InList(app, UPGRADE_EXCLUDE_LIST) \/ InList(charm_name, UPGRADE_EXCLUDE_LIST)

_filter_non_openstack_services(app, app_config) ==
    LET charm_options == get_application_config(app)
        src_options == <<"openstack-origin", "source">>
    IN  {x \in ToSet(src_options) : x \in charm_options} = {}

_filter_easyrsa(app, app_config) ==
    LET charm_name == extract_charm_name_from_url(app_config.charm)
    IN  Contains(charm_name, s_easyrsa)

_filter_etcd(app, app_config) ==
    LET charm_name == extract_charm_name_from_url(app_config.charm)
    IN  Contains(charm_name, s_etcd)

_filter_memcached(app, app_config) ==
    LET charm_name == extract_charm_name_from_url(app_config.charm)
    IN  Contains(charm_name, s_memcached)

\* filt(app, app_config, model_name=model_name)
CallFilter(filt, app, app_config) ==
    CASE filt = "_filter_subordinates" -> _filter_subordinates(app, app_config)
      [] filt = "_filter_openstack_upgrade_list" ->
             _filter_openstack_upgrade_list(app, app_config)
      [] filt = "_filter_non_openstack_services" ->
             _filter_non_openstack_services(app, app_config)
      [] filt = "_filter_easyrsa" -> _filter_easyrsa(app, app_config)
      [] filt = "_filter_etcd" -> _filter_etcd(app, app_config)
      [] filt = "_filter_memcached" -> _filter_memcached(app, app_config)

\* the calls one call of filt makes, itself first: _filter_non_openstack_services
\* looks the application's config up, the other filters call nothing outside
CallsOfFilter(filt, app) ==
    << [fn |-> filt, app |-> app] >>
      \o (IF filt = "_filter_non_openstack_services"
          THEN << [fn |-> "get_application_config", app |-> app] >>
          ELSE <<>>)

\* _include_app that asks the first filter of the chain only
_include_app_first_filter_only(app, app_config, filts, i) ==
    IF i > Len(filts) THEN TRUE ELSE ~CallFilter(filts[i], app, app_config)

\* _include_app, from the i-th filter of the chain on
RECURSIVE _include_app(_, _, _, _)
_include_app(app, app_config, filts, i) ==
    IF i > Len(filts)
    THEN TRUE
    ELSE IF CallFilter(filts[i], app, app_config)
         THEN FALSE
         ELSE _include_app(app, app_config, filts, i + 1)

\* the calls of an _include_app that asks every filter of the chain, whatever the
\* earlier ones returned
RECURSIVE _include_app_calls_every_filter(_, _, _, _)
_include_app_calls_every_filter(app, app_config, filts, i) ==
    IF i > Len(filts)
    THEN <<>>
    ELSE CallsOfFilter(filts[i], app)
           \o _include_app_calls_every_filter(app, app_config, filts, i + 1)

\* the calls _include_app makes from the i-th filter on: it returns at the first
\* filter that returns true
RECURSIVE _include_app_calls(_, _, _, _)
_include_app_calls(app, app_config, filts, i) ==
    IF i > Len(filts)
    THEN <<>>
    ELSE CallsOfFilter(filts[i], app)
           \o (IF FilterRaises(filts[i], app_config) # "none"
               THEN <<>>
               ELSE IF CallFilter(filts[i], app, app_config)
                    THEN <<>>
                    ELSE _include_app_calls(app, app_config, filts, i + 1))

\* the exception that leaves _include_app from the i-th filter on: that of the first
\* filter that raises, when no filter before it returned true
RECURSIVE _include_app_raises(_, _, _)
_include_app_raises(app_config, filts, i) ==
    IF i > Len(filts)
    THEN "none"
    ELSE IF FilterRaises(filts[i], app_config) # "none"
         THEN FilterRaises(filts[i], app_config)
         ELSE IF CallFilter(filts[i], app_config.app, app_config)
              THEN "none"
              ELSE _include_app_raises(app_config, filts, i + 1)

\* get_upgrade_candidates: the applications of the status that _include_app keeps,
\* in the order of status.applications.items()
get_upgrade_candidates(filts) ==
    LET Included(app_config) == _include_app(app_config.app, app_config, filts, 1)
    IN  SelectSeq(get_status, Included)

\* the calls of the loop of get_upgrade_candidates from the i-th application on
RECURSIVE CandidatesCalls(_, _, _)
CandidatesCalls(applications, filts, i) ==
    IF i > Len(applications)
    THEN <<>>
    ELSE _include_app_calls(applications[i].app, applications[i], filts, 1)
           \o (IF _include_app_raises(applications[i], filts, 1) # "none"
               THEN <<>>
               ELSE CandidatesCalls(applications, filts, i + 1))

\* the exception that leaves the loop of get_upgrade_candidates from the i-th
\* application on
RECURSIVE CandidatesRaises(_, _, _)
CandidatesRaises(applications, filts, i) ==
    IF i > Len(applications)
    THEN "none"
    ELSE IF _include_app_raises(applications[i], filts, 1) # "none"
         THEN _include_app_raises(applications[i], filts, 1)
         ELSE CandidatesRaises(applications, filts, i + 1)

get_upgrade_candidates_raises(filts) == CandidatesRaises(get_status, filts, 1)

\* the calls get_upgrade_candidates makes: get_status once, then the filters
get_upgrade_candidates_calls(filts) ==
    << [fn |-> "get_status", app |-> <<>>] >> \o CandidatesCalls(get_status, filts, 1)

_apply_extra_filters(filts, extra_filters) ==
    IF Truthy(extra_filters)
    THEN IF extra_filters.type = "list"
         THEN [raised |-> "none", filters |-> filts \o extra_filters.items,
               extra_filters |-> extra_filters]
         ELSE IF extra_filters.type = "function"
         THEN [raised |-> "none", filters |-> filts \o extra_filters.items,
               extra_filters |-> extra_filters]
         ELSE [raised |-> "RuntimeError", filters |-> filts,
               extra_filters |-> extra_filters]
    ELSE [raised |-> "none", filters |-> filts, extra_filters |-> extra_filters]

----------------------------------------------------------------------------
(* _build_service_groups *)

\* the inner loop that tests the application's name instead of its charm name
PhaseGroup_by_app_name(applications, charms) ==
    LET InPhase(e) == InList(e.app, charms)
    IN  Keys(SelectSeq(applications, InPhase))

\* the inner loop: the applications whose charm is one of charms, in the mapping's order
PhaseGroup(applications, charms) ==
    LET InPhase(e) == InList(extract_charm_name_from_url(e.charm), charms)
    IN  Keys(SelectSeq(applications, InPhase))

\* the sweep-up without the vhash test
SweepUp_everything(applications, groups) ==
    Keys(applications)

\* itertools.chain(*(ls for _, ls in groups))
RECURSIVE Chain(_)
Chain(groups) ==
    IF groups = <<>> THEN <<>> ELSE Head(groups)[2] \o Chain(Tail(groups))

\* values, vhash and sweep_up: the applications that are in no group
SweepUp(applications, groups) ==
    LET values == Chain(groups)
        vhash == ToSet(values)
        NotPlaced(app) == app \notin vhash
    IN  SelectSeq(Keys(applications), NotPlaced)

\* the final loop without the sort
SortGroups_unsorted(groups) ==
    groups

\* the final loop: every group's list sorted in place
RECURSIVE SortGroups(_)
SortGroups(groups) ==
    IF groups = <<>>
    THEN <<>>
    ELSE << <<Head(groups)[1], ListSort(Head(groups)[2])>> >> \o SortGroups(Tail(groups))

\* the first loop from the i-th phase on, without the phases that get no member
RECURSIVE PhaseGroups_skip_empty(_, _)
PhaseGroups_skip_empty(applications, i) ==
    IF i > Len(SERVICE_GROUPS)
    THEN <<>>
    ELSE LET group == PhaseGroup(applications, SERVICE_GROUPS[i][2])
         IN  (IF group = <<>> THEN <<>> ELSE << <<SERVICE_GROUPS[i][1], group>> >>)
               \o PhaseGroups_skip_empty(applications, i + 1)

\* the first loop, from the i-th phase of SERVICE_GROUPS on
RECURSIVE PhaseGroups(_, _)
PhaseGroups(applications, i) ==
    IF i > Len(SERVICE_GROUPS)
    THEN <<>>
    ELSE << <<SERVICE_GROUPS[i][1], PhaseGroup(applications, SERVICE_GROUPS[i][2])>> >>
           \o PhaseGroups(applications, i + 1)

_build_service_groups(applications) ==
    LET groups == PhaseGroups(applications, 1)
        sweep_up == SweepUp(applications, groups)
    IN  SortGroups(Append(groups, <<"sweep_up", sweep_up>>))

\* the exception that leaves _build_service_groups: the inner loop of the first phase
\* looks up the charm of every application, in the mapping's order
RECURSIVE _build_service_groups_raises(_)
_build_service_groups_raises(applications) ==
    IF applications = <<>>
    THEN "none"
    ELSE IF CharmRaises(Head(applications)) # "none"
         THEN CharmRaises(Head(applications))
         ELSE _build_service_groups_raises(Tail(applications))

\* what return _build_service_groups(apps_in_model) gives the caller
ReturnGroups(apps_in_model) ==
    IF _build_service_groups_raises(apps_in_model) # "none"
    THEN [raised |-> _build_service_groups_raises(apps_in_model), groups |-> <<>>]
    ELSE [raised |-> "none", groups |-> _build_service_groups(apps_in_model)]

----------------------------------------------------------------------------
(* A caller that keeps what a call returned *)

NoCall == [fn |-> "none", extra_filters |-> PyNone, extra_filters_after |-> PyNone]

NotRemembered ==
    [set |-> FALSE, call |-> NoCall, filters |-> <<>>, candidates |-> <<>>,
     result |-> [raised |-> "none", groups |-> <<>>], other_between |-> FALSE]

\* a call of entry point fn is made: a caller that kept an earlier call notes whether
\* this one differs from it in mode or in extra_filters
NoteCall(fn, extra_filters) ==
    IF /\ earlier.set
       /\ \/ earlier.call.fn # fn
          \/ earlier.call.extra_filters # extra_filters
    THEN [earlier EXCEPT !.other_between = TRUE]
    ELSE earlier

\* the caller keeps the arguments and the outcome of the call just made
Remember ==
    /\ call.fn # "none"
    /\ earlier' = [set |-> TRUE, call |-> call, filters |-> filters,
                   candidates |-> candidates, result |-> result,
                   other_between |-> FALSE]
    /\ UNCHANGED <<deployed, call, filters, calls, candidates, result, extracted,
                   validated, pid_list>>

----------------------------------------------------------------------------
(* Entry points *)

\* the default filters of get_upgrade_groups without the exclude list
DefaultFilters_upgrade_no_exclude_list ==
    <<"_filter_subordinates", "_filter_non_openstack_services">>

\* the default filters of get_upgrade_groups kept in one list shared by its calls:
\* what an earlier call of it appended is still there
DefaultFilters_upgrade_shared ==
    IF call.fn = "get_upgrade_groups"
    THEN filters
    ELSE <<"_filter_subordinates", "_filter_openstack_upgrade_list",
           "_filter_non_openstack_services">>

DefaultFilters_upgrade ==
    <<"_filter_subordinates",
      "_filter_openstack_upgrade_list",
      "_filter_non_openstack_services">>

\* the default filters of get_series_upgrade_groups copied from get_upgrade_groups
DefaultFilters_series_as_upgrade ==
    <<"_filter_subordinates",
      "_filter_openstack_upgrade_list",
      "_filter_non_openstack_services">>

DefaultFilters_series == <<"_filter_subordinates">>

\* the default filters of get_charm_upgrade_groups copied from get_series_upgrade_groups
DefaultFilters_charm_as_series == <<"_filter_subordinates">>

DefaultFilters_charm == <<>>

\* the values callers pass as extra_filters
ExtraFilterValues ==
    { PyNone,
      [type |-> "function", items |-> <<"_filter_easyrsa">>],
      [type |-> "list", items |-> <<"_filter_easyrsa", "_filter_subordinates">>],
      [type |-> "tuple", items |-> <<"_filter_easyrsa">>],
      [type |-> "tuple", items |-> <<>>] }

\* Each entry point builds its chain, fetches the candidates and builds the groups;
\* nothing is fetched when _apply_extra_filters raises, and an exception of a filter
\* or of _build_service_groups leaves the entry point.
get_upgrade_groups ==
    \E extra_filters \in ExtraFilterValues :
        \E applied \in {_apply_extra_filters(DefaultFilters_upgrade, extra_filters)} :
            /\ call' = [fn |-> "get_upgrade_groups", extra_filters |-> extra_filters,
                        extra_filters_after |-> applied.extra_filters]
            /\ earlier' = NoteCall("get_upgrade_groups", extra_filters)
            /\ filters' = applied.filters
            /\ IF applied.raised # "none"
               THEN /\ calls' = <<>>
                    /\ candidates' = <<>>
                    /\ result' = [raised |-> applied.raised, groups |-> <<>>]
               ELSE /\ calls' = get_upgrade_candidates_calls(applied.filters)
                    /\ IF get_upgrade_candidates_raises(applied.filters) # "none"
                       THEN /\ candidates' = <<>>
                            /\ result' =
                                  [raised |->
                                      get_upgrade_candidates_raises(applied.filters),
                                   groups |-> <<>>]
                       ELSE \E apps_in_model \in
                                   {get_upgrade_candidates(applied.filters)} :
                                /\ candidates' = apps_in_model
                                /\ result' = ReturnGroups(apps_in_model)
            /\ UNCHANGED <<deployed, extracted, validated, pid_list>>

get_series_upgrade_groups ==
    \E extra_filters \in ExtraFilterValues :
        \E applied \in {_apply_extra_filters(DefaultFilters_series, extra_filters)} :
            /\ call' = [fn |-> "get_series_upgrade_groups", extra_filters |-> extra_filters,
                        extra_filters_after |-> applied.extra_filters]
            /\ earlier' = NoteCall("get_series_upgrade_groups", extra_filters)
            /\ filters' = applied.filters
            /\ IF applied.raised # "none"
               THEN /\ calls' = <<>>
                    /\ candidates' = <<>>
                    /\ result' = [raised |-> applied.raised, groups |-> <<>>]
               ELSE /\ calls' = get_upgrade_candidates_calls(applied.filters)
                    /\ IF get_upgrade_candidates_raises(applied.filters) # "none"
                       THEN /\ candidates' = <<>>
                            /\ result' =
                                  [raised |->
                                      get_upgrade_candidates_raises(applied.filters),
                                   groups |-> <<>>]
                       ELSE \E apps_in_model \in
                                   {get_upgrade_candidates(applied.filters)} :
                                /\ candidates' = apps_in_model
                                /\ result' = ReturnGroups(apps_in_model)
            /\ UNCHANGED <<deployed, extracted, validated, pid_list>>

get_charm_upgrade_groups ==
    \E extra_filters \in ExtraFilterValues :
        \E applied \in {_apply_extra_filters(DefaultFilters_charm, extra_filters)} :
            /\ call' = [fn |-> "get_charm_upgrade_groups", extra_filters |-> extra_filters,
                        extra_filters_after |-> applied.extra_filters]
            /\ earlier' = NoteCall("get_charm_upgrade_groups", extra_filters)
            /\ filters' = applied.filters
            /\ IF applied.raised # "none"
               THEN /\ calls' = <<>>
                    /\ candidates' = <<>>
                    /\ result' = [raised |-> applied.raised, groups |-> <<>>]
               ELSE /\ calls' = get_upgrade_candidates_calls(applied.filters)
                    /\ IF get_upgrade_candidates_raises(applied.filters) # "none"
                       THEN /\ candidates' = <<>>
                            /\ result' =
                                  [raised |->
                                      get_upgrade_candidates_raises(applied.filters),
                                   groups |-> <<>>]
                       ELSE \E apps_in_model \in
                                   {get_upgrade_candidates(applied.filters)} :
                                /\ candidates' = apps_in_model
                                /\ result' = ReturnGroups(apps_in_model)
            /\ UNCHANGED <<deployed, extracted, validated, pid_list>>

----------------------------------------------------------------------------
(* The deployed model *)

\* application names: one a prefix of another, one the name of a Data Plane charm,
\* one on the exclude list
AppNames == {s_nova, s_nova_compute, s_rabbitmq_server}

\* what an application runs: its charm URL, the applications it is subordinate to,
\* and the options get_application_config reports for it
AppConfigs ==
    { [charm |-> url_keystone, subordinate_to |-> <<>>,
       options |-> {"debug", "openstack-origin"}],
      [charm |-> url_heat, subordinate_to |-> <<>>,
       options |-> {"debug", "openstack-origin"}],
      [charm |-> url_heat, subordinate_to |-> <<s_nova_compute>>,
       options |-> {"debug", "openstack-origin"}],
      [charm |-> url_ceph_mon, subordinate_to |-> <<>>,
       options |-> {"source"}],
      [charm |-> url_rabbitmq, subordinate_to |-> <<>>,
       options |-> {"source"}],
      [charm |-> url_easyrsa, subordinate_to |-> <<>>,
       options |-> {"debug"}] }

\* one application of the status
Applications ==
    { [app |-> a, charm_type |-> "str", charm |-> c.charm,
       subordinate_to |-> c.subordinate_to,
       options |-> c.options] : a \in AppNames, c \in AppConfigs }

\* the keys of a mapping are distinct
DistinctKeys(entries) ==
    \A i, j \in 1..Len(entries) : entries[i].app = entries[j].app => i = j

NoResult == [raised |-> "none", groups |-> <<>>]
NotExtracted == [called |-> FALSE, charm_url |-> <<>>, charm_name |-> <<>>]
NotValidated == [called |-> FALSE, expected |-> <<>>, actual |-> <<>>, outcome |-> "none"]
NoPidList ==
    [called |-> FALSE, code |-> 0, stdout |-> <<>>, expect_success |-> TRUE,
     outcome |-> "none", pids |-> <<>>]

Init ==
    /\ \E n \in 0..MaxApps :
          /\ deployed \in [1..n -> Applications]
          /\ DistinctKeys(deployed)
    /\ call = NoCall
    /\ filters = <<>>
    /\ calls = <<>>
    /\ candidates = <<>>
    /\ result = NoResult
    /\ extracted = NotExtracted
    /\ earlier = NotRemembered
    /\ validated = NotValidated
    /\ pid_list = NoPidList

Next ==
    \/ get_upgrade_groups
    \/ get_series_upgrade_groups
    \/ get_charm_upgrade_groups

Spec == Init /\ [][Next]_vars

----------------------------------------------------------------------------
(* Statuses with applications whose charm URL is absent or malformed *)

\* a charm URL with no name after the scheme
url_no_name == s_cs \o <<":">>

\* values of status.applications: charm_type tells a str 'charm' from a None one and
\* from an entry without the key
EdgeConfigs ==
    { [charm_type |-> "missing", charm |-> <<>>, subordinate_to |-> <<>>,
       options |-> {"debug", "openstack-origin"}],
      [charm_type |-> "NoneType", charm |-> <<>>, subordinate_to |-> <<>>,
       options |-> {"debug", "openstack-origin"}],
      [charm_type |-> "str", charm |-> <<>>, subordinate_to |-> <<>>,
       options |-> {"debug", "openstack-origin"}],
      [charm_type |-> "str", charm |-> url_no_name, subordinate_to |-> <<>>,
       options |-> {"debug", "openstack-origin"}],
      [charm_type |-> "missing", charm |-> <<>>, subordinate_to |-> <<s_nova_compute>>,
       options |-> {"debug", "openstack-origin"}],
      [charm_type |-> "str", charm |-> url_keystone, subordinate_to |-> <<>>,
       options |-> {"debug", "openstack-origin"}] }

EdgeApplications ==
    { [app |-> a, charm_type |-> c.charm_type, charm |-> c.charm,
       subordinate_to |-> c.subordinate_to,
       options |-> c.options] : a \in AppNames, c \in EdgeConfigs }

InitEdge ==
    /\ \E n \in 0..MaxApps :
          /\ deployed \in [1..n -> EdgeApplications]
          /\ DistinctKeys(deployed)
    /\ call = NoCall
    /\ filters = <<>>
    /\ calls = <<>>
    /\ candidates = <<>>
    /\ result = NoResult
    /\ extracted = NotExtracted
    /\ earlier = NotRemembered
    /\ validated = NotValidated
    /\ pid_list = NoPidList

SpecEdge == InitEdge /\ [][Next]_vars

----------------------------------------------------------------------------
(* Repeated calls on one status snapshot *)

RepeatNames == {s_nova, s_nova_compute}

RepeatConfigs ==
    { [charm |-> url_keystone, subordinate_to |-> <<>>,
       options |-> {"debug", "openstack-origin"}],
      [charm |-> url_heat, subordinate_to |-> <<s_nova_compute>>,
       options |-> {"debug", "openstack-origin"}],
      [charm |-> url_easyrsa, subordinate_to |-> <<>>,
       options |-> {"debug"}] }

RepeatApplications ==
    { [app |-> a, charm_type |-> "str", charm |-> c.charm,
       subordinate_to |-> c.subordinate_to,
       options |-> c.options] : a \in RepeatNames, c \in RepeatConfigs }

InitRepeat ==
    /\ \E n \in 0..MaxApps :
          /\ deployed \in [1..n -> RepeatApplications]
          /\ DistinctKeys(deployed)
    /\ call = NoCall
    /\ filters = <<>>
    /\ calls = <<>>
    /\ candidates = <<>>
    /\ result = NoResult
    /\ extracted = NotExtracted
    /\ earlier = NotRemembered
    /\ validated = NotValidated
    /\ pid_list = NoPidList

NextRepeat ==
    \/ get_upgrade_groups
    \/ get_series_upgrade_groups
    \/ get_charm_upgrade_groups
    \/ Remember

SpecRepeat == InitRepeat /\ [][NextRepeat]_vars

----------------------------------------------------------------------------
(* Statuses with the databases and message brokers of the exclude list *)

ExcludeNames == {s_nova, s_rabbitmq_server, s_percona_cluster}

ExcludeConfigs ==
    { [charm |-> url_percona_cluster, subordinate_to |-> <<>>,
       options |-> {"source"}],
      [charm |-> url_mysql_innodb_cluster, subordinate_to |-> <<>>,
       options |-> {"source"}],
      [charm |-> url_rabbitmq, subordinate_to |-> <<>>,
       options |-> {"source"}],
      [charm |-> url_ceph_mon, subordinate_to |-> <<>>,
       options |-> {"source"}],
      [charm |-> url_heat, subordinate_to |-> <<>>,
       options |-> {"debug", "openstack-origin"}] }

ExcludeApplications ==
    { [app |-> a, charm_type |-> "str", charm |-> c.charm,
       subordinate_to |-> c.subordinate_to,
       options |-> c.options] : a \in ExcludeNames, c \in ExcludeConfigs }

InitExclude ==
    /\ \E n \in 0..MaxApps :
          /\ deployed \in [1..n -> ExcludeApplications]
          /\ DistinctKeys(deployed)
    /\ call = NoCall
    /\ filters = <<>>
    /\ calls = <<>>
    /\ candidates = <<>>
    /\ result = NoResult
    /\ extracted = NotExtracted
    /\ earlier = NotRemembered
    /\ validated = NotValidated
    /\ pid_list = NoPidList

SpecExclude == InitExclude /\ [][Next]_vars

----------------------------------------------------------------------------
(* Charm-name extraction on its own *)

UrlAlphabet == {"h", "1", "-", "/", ":"}

\* every str over UrlAlphabet of up to MaxUrlLen characters
ShortUrls == UNION {[1..n -> UrlAlphabet] : n \in 0..MaxUrlLen}

Schemes == {s_cs, s_local}
SeriesNames == {<<>>, s_bionic, s_containers}
CharmNames == {s_heat, s_ceph_mon, s_nova_cloud_controller, <<"h", "1">>, <<"h", "-", "1">>}
Revisions == {<<>>, <<"0">>, <<"1", "2">>}

\* the URLs of the forms scheme:series/name-revision, scheme:series/name,
\* scheme:name-revision and scheme:name
FormedUrls ==
    {CharmUrl(sc, se, n, r) :
        sc \in Schemes, se \in SeriesNames, n \in CharmNames, r \in Revisions}

\* the call extract_charm_name_from_url(extracted.charm_url)
ExtractCharmName ==
    /\ ~extracted.called
    /\ extracted' = [called |-> TRUE,
                     charm_url |-> extracted.charm_url,
                     charm_name |-> extract_charm_name_from_url(extracted.charm_url)]
    /\ UNCHANGED <<deployed, call, filters, calls, candidates, result,
                   earlier, validated, pid_list>>

\* the argument of the call is any short str or any formed URL
InitExtract ==
    /\ deployed = <<>>
    /\ call = NoCall
    /\ filters = <<>>
    /\ calls = <<>>
    /\ candidates = <<>>
    /\ result = NoResult
    /\ \E charm_url \in ShortUrls \cup FormedUrls :
          extracted = [called |-> FALSE, charm_url |-> charm_url, charm_name |-> <<>>]
    /\ earlier = NotRemembered
    /\ validated = NotValidated
    /\ pid_list = NoPidList

NextExtract == ExtractCharmName

SpecExtract == InitExtract /\ [][NextExtract]_vars

----------------------------------------------------------------------------
(* validate_unit_process_ids of zaza/openstack/utilities/generic.py *)

\* an expected PID count: an int, or a list of acceptable ints
PyInt(n) == [type |-> "int", value |-> n, items |-> <<>>]
PyIntList(l) == [type |-> "list", value |-> 0, items |-> l]

\* the PID-count check: an int must equal the number of actual PIDs, a sequence must
\* hold it
PidCountMatches_first_item_only(e_pids, a_pids) ==
    IF e_pids.type = "list"
    THEN e_pids.items # <<>> /\ Len(a_pids) = e_pids.items[1]
    ELSE Len(a_pids) = e_pids.value

PidCountMatches(e_pids, a_pids) ==
    IF e_pids.type = "list"
    THEN InList(Len(a_pids), e_pids.items)
    ELSE Len(a_pids) = e_pids.value

\* the units both maps hold
CommonUnits(expected, actual) == DOMAIN expected \cap DOMAIN actual

\* does the named check fail? A per-unit check looks at the units found in actual,
\* a per-process check at the process names found for the unit.
Fails(check, expected, actual) ==
    CASE check = "UnitCountMismatch" ->
             Cardinality(DOMAIN expected) # Cardinality(DOMAIN actual)
      [] check = "UnitNotFound" ->
             \E unit \in DOMAIN expected : unit \notin DOMAIN actual
      [] check = "ProcessNameCountMismatch" ->
             \E unit \in CommonUnits(expected, actual) :
                 Cardinality(DOMAIN expected[unit]) # Cardinality(DOMAIN actual[unit])
      [] check = "ProcessNameMismatch" ->
             \E unit \in CommonUnits(expected, actual) :
                 \E process \in DOMAIN expected[unit] :
                     process \notin DOMAIN actual[unit]
      [] check = "PIDCountMismatch" ->
             \E unit \in CommonUnits(expected, actual) :
                 \E process \in DOMAIN expected[unit] \cap DOMAIN actual[unit] :
                     ~PidCountMatches(expected[unit][process], actual[unit][process])

\* the checks with unit presence tested before the unit count
CheckOrder_presence_first ==
    <<"UnitNotFound", "UnitCountMismatch", "ProcessNameCountMismatch",
      "ProcessNameMismatch", "PIDCountMismatch">>

\* the checks in the order they are performed
CheckOrder ==
    <<"UnitCountMismatch", "UnitNotFound", "ProcessNameCountMismatch",
      "ProcessNameMismatch", "PIDCountMismatch">>

\* the error of the first failing check from the i-th on, "True" when none fails
RECURSIVE FirstFailure(_, _, _)
FirstFailure(expected, actual, i) ==
    IF i > Len(CheckOrder)
    THEN "True"
    ELSE IF Fails(CheckOrder[i], expected, actual)
         THEN CheckOrder[i]
         ELSE FirstFailure(expected, actual, i + 1)

\* the validator without its unit-count check
validate_without_unit_count(expected, actual) == FirstFailure(expected, actual, 2)

\* what the validator returns ("True") or the error it raises
validate_unit_process_ids(expected, actual) == FirstFailure(expected, actual, 1)

UnitNames == {"ceph-osd/0", "unit/0", "unit/1"}
ProcessNames == {"pr1", "pr2"}

\* the maps hold up to two of the three units, as those of the test do
UnitSets == (SUBSET UnitNames) \ {UnitNames}

\* expected counts: the two shapes, with the values of the test
ExpectedCounts == {PyInt(2), PyIntList(<<1, 2>>)}

\* lists of PIDs
PidLists == {[i \in 1..n |-> i] : n \in 0..MaxPids}

\* {process_name: expected_count} and {process_name: [pid, ...]}
ExpectedProcesses == UNION {[names -> ExpectedCounts] : names \in SUBSET ProcessNames}
ActualProcesses == UNION {[names -> PidLists] : names \in SUBSET ProcessNames}

\* {unit: {process_name: ...}}
ExpectedMaps == UNION {[units -> ExpectedProcesses] : units \in UnitSets}
ActualMaps == UNION {[units -> ActualProcesses] : units \in UnitSets}

ValidateUnitProcessIds ==
    /\ ~validated.called
    /\ validated' = [called |-> TRUE,
                     expected |-> validated.expected,
                     actual |-> validated.actual,
                     outcome |-> validate_unit_process_ids(validated.expected,
                                                           validated.actual)]
    /\ UNCHANGED <<deployed, call, filters, calls, candidates, result, extracted,
                   earlier, pid_list>>

\* the arguments of the call are any two maps
InitValidate ==
    /\ deployed = <<>>
    /\ call = NoCall
    /\ filters = <<>>
    /\ calls = <<>>
    /\ candidates = <<>>
    /\ result = NoResult
    /\ extracted = NotExtracted
    /\ earlier = NotRemembered
    /\ pid_list = NoPidList
    /\ \E expected \in ExpectedMaps, actual \in ActualMaps :
          validated = [called |-> FALSE, expected |-> expected, actual |-> actual,
                       outcome |-> "none"]

NextValidate == ValidateUnitProcessIds

SpecValidate == InitValidate /\ [][NextValidate]_vars

----------------------------------------------------------------------------
(* get_process_id_list of zaza/openstack/utilities/generic.py *)

\* str.split(): the maximal runs of characters other than whitespace, in order; word
\* is the run being read
RECURSIVE SplitWords(_, _)
SplitWords(s, word) ==
    IF s = <<>>
    THEN IF word = <<>> THEN <<>> ELSE <<word>>
    ELSE IF Head(s) = " "
         THEN (IF word = <<>> THEN <<>> ELSE <<word>>) \o SplitWords(Tail(s), <<>>)
         ELSE SplitWords(Tail(s), Append(word, Head(s)))

StrSplit(s) == SplitWords(s, <<>>)

\* get_process_id_list that returns the PIDs whatever the result code
get_process_id_list_ignores_code(code, stdout, expect_success) ==
    [outcome |-> "returned", pids |-> StrSplit(stdout)]

\* the outcome of get_process_id_list for the result of the remote pidof: a non-zero
\* code fails with ProcessIdsFailed unless expect_success is false
get_process_id_list(code, stdout, expect_success) ==
    IF code # 0 /\ expect_success
    THEN [outcome |-> "ProcessIdsFailed", pids |-> <<>>]
    ELSE [outcome |-> "returned", pids |-> StrSplit(stdout)]

\* result codes of the remote command
ResultCodes == {0, 1}

StdoutAlphabet == {"1", "2", " "}

\* what the remote command wrote to its standard output
Stdouts == UNION {[1..n -> StdoutAlphabet] : n \in 0..MaxStdoutLen}

GetProcessIdList ==
    /\ ~pid_list.called
    /\ \E r \in {get_process_id_list(pid_list.code, pid_list.stdout,
                                    pid_list.expect_success)} :
          pid_list' = [pid_list EXCEPT !.called = TRUE,
                                       !.outcome = r.outcome,
                                       !.pids = r.pids]
    /\ UNCHANGED <<deployed, call, filters, calls, candidates, result, extracted,
                   earlier, validated>>

\* the remote result and the expect_success argument are any
InitPidList ==
    /\ deployed = <<>>
    /\ call = NoCall
    /\ filters = <<>>
    /\ calls = <<>>
    /\ candidates = <<>>
    /\ result = NoResult
    /\ extracted = NotExtracted
    /\ earlier = NotRemembered
    /\ validated = NotValidated
    /\ \E code \in ResultCodes, stdout \in Stdouts, expect_success \in BOOLEAN :
          pid_list = [called |-> FALSE, code |-> code, stdout |-> stdout,
                      expect_success |-> expect_success,
                      outcome |-> "none", pids |-> <<>>]

NextPidList == GetProcessIdList

SpecPidList == InitPidList /\ [][NextPidList]_vars

----------------------------------------------------------------------------
(* What the claims speak of *)

Called == call.fn # "none"
Returned == Called /\ result.raised = "none"

\* the applications of the result, over all its groups
Members == UNION {ToSet(result.groups[i][2]) : i \in 1..Len(result.groups)}

\* how often app occurs in the result
Occurrences(app) ==
    Cardinality({<<i, j>> \in (1..Len(result.groups)) \X (1..MaxApps + 1) :
                    j <= Len(result.groups[i][2]) /\ result.groups[i][2][j] = app})

Deployed == ToSet(deployed)

\* no filter of the chain returns true for the application
Survives(e, chain) == \A i \in 1..Len(chain) : ~CallFilter(chain[i], e.app, e)

PhaseNames ==
    <<"Database Services", "Stateful Services", "Core Identity",
      "Control Plane", "Data Plane", "sweep_up">>

\* the index of phase name in the result
PhaseIndex(name) == CHOOSE i \in 1..Len(PhaseNames) : PhaseNames[i] = name

IsSubordinate(e) == e.subordinate_to # <<>>

OnExcludeList(e) ==
    \/ e.app \in {s_rabbitmq_server, s_percona_cluster}
    \/ extract_charm_name_from_url(e.charm) \in {s_rabbitmq_server, s_percona_cluster}

HasSourceOption(e) == "openstack-origin" \in e.options \/ "source" \in e.options

----------------------------------------------------------------------------
(* Claims *)

\* C1: the groups returned partition exactly the applications that survive the
\* filters: the members of all groups, sweep-up included, are the survivors, and
\* no application is in two groups or twice in one group.
C1_GroupsPartitionSurvivors ==
    Returned =>
        /\ Members = {e.app : e \in {d \in Deployed : Survives(d, filters)}}
        /\ \A e \in Deployed : Occurrences(e.app) <= 1

\* a call that returned two survivors in two different groups, one of them sweep-up,
\* and only them
C1_Witness ==
    /\ Returned
    /\ Len(deployed) = 2
    /\ Len(candidates) = 2
    /\ Len(result.groups) = 6
    /\ Len(result.groups[6][2]) = 1
    /\ Cardinality(Members) = 2

\* C2: an application is kept if and only if no filter of the chain returns true
\* for it: one for which some filter returns true is in no group of the output, one
\* for which every filter returns false is in the output.
C2_KeptIffNoFilterExcludes ==
    Returned =>
        \A e \in Deployed :
            /\ (\E i \in 1..Len(filters) : CallFilter(filters[i], e.app, e))
                  => e.app \notin Members /\ e \notin ToSet(candidates)
            /\ (\A i \in 1..Len(filters) : ~CallFilter(filters[i], e.app, e))
                  => e.app \in Members /\ e \in ToSet(candidates)

\* a chain of three filters where the first filter passes an application that a
\* later one excludes, and another application is kept
C2_Witness ==
    /\ Returned
    /\ Len(filters) >= 3
    /\ \E e \in Deployed :
          /\ ~CallFilter(filters[1], e.app, e)
          /\ \E i \in 2..Len(filters) : CallFilter(filters[i], e.app, e)
          /\ e.app \notin Members
    /\ Members # {}

\* C3: every surviving application is placed by its extracted charm name, not by
\* its application name: it is in the named phase whose list contains its charm
\* name, and in sweep-up exactly when no named phase's list contains it.
C3_PlacedByCharmName ==
    Returned =>
        /\ Len(result.groups) = Len(SERVICE_GROUPS) + 1
        /\ \A e \in ToSet(candidates) :
              /\ \A i \in 1..Len(SERVICE_GROUPS) :
                    e.app \in ToSet(result.groups[i][2])
                       <=> extract_charm_name_from_url(e.charm)
                              \in ToSet(SERVICE_GROUPS[i][2])
              /\ e.app \in ToSet(result.groups[Len(SERVICE_GROUPS) + 1][2])
                    <=> \A i \in 1..Len(SERVICE_GROUPS) :
                           extract_charm_name_from_url(e.charm)
                              \notin ToSet(SERVICE_GROUPS[i][2])

\* the application named nova-compute runs the heat charm and is planned in the
\* Control Plane, not in the Data Plane its name would give; another is swept up
C3_Witness ==
    /\ Returned
    /\ Len(result.groups) = 6
    /\ \E e \in ToSet(candidates) : e.app = s_nova_compute /\ e.charm = url_heat
    /\ result.groups[PhaseIndex("Control Plane")] = <<"Control Plane", <<s_nova_compute>> >>
    /\ result.groups[PhaseIndex("Data Plane")] = <<"Data Plane", <<>> >>
    /\ Len(result.groups[PhaseIndex("sweep_up")][2]) = 1

\* C4: for every input, the empty application set included, the planner returns
\* exactly six (phase_name, members) pairs in the fixed order, sweep-up last; a phase
\* without members is there with an empty list.
C4_SixPhasesInOrder ==
    Returned =>
        /\ Len(result.groups) = 6
        /\ \A i \in 1..6 : result.groups[i][1] = PhaseNames[i]

\* a call on a model without applications that returned six empty groups
C4_Witness ==
    /\ Returned
    /\ deployed = <<>>
    /\ Len(result.groups) = 6
    /\ \A i \in 1..6 : result.groups[i] = <<PhaseNames[i], <<>> >>

\* C5: the member list of every group, sweep-up included, is in ascending
\* lexicographic order of application name, whatever the order of the input mapping:
\* nova before nova-compute before rabbitmq-server.
C5_GroupsSorted ==
    Returned =>
        \A i \in 1..Len(result.groups) :
            \A j, k \in 1..Len(result.groups[i][2]) :
                j < k =>
                    /\ StrLess(result.groups[i][2][j], result.groups[i][2][k])
                    /\ <<result.groups[i][2][j], result.groups[i][2][k]>>
                          \in {<<s_nova, s_nova_compute>>,
                               <<s_nova, s_rabbitmq_server>>,
                               <<s_nova_compute, s_rabbitmq_server>>}

\* the mapping lists nova-compute before nova, both run heat, and the Control Plane
\* group lists nova first
C5_Witness ==
    /\ Returned
    /\ Keys(candidates) = <<s_nova_compute, s_nova>>
    /\ Len(result.groups) = 6
    /\ result.groups[PhaseIndex("Control Plane")][2] = <<s_nova, s_nova_compute>>

\* C6: get_upgrade_groups with no extra filters excludes every subordinate, every
\* application on the exclude list (rabbitmq-server, percona-cluster) and every
\* application without an openstack-origin or source option; every other application
\* of the status is in the result.
C6_FullUpgradeDefaults ==
    (Returned /\ call.fn = "get_upgrade_groups" /\ call.extra_filters = PyNone) =>
        \A e \in Deployed :
            e.app \in Members
               <=> ~(IsSubordinate(e) \/ OnExcludeList(e) \/ ~HasSourceOption(e))

\* a full-upgrade call that planned ceph-mon (source option only) and left out an
\* application running the rabbitmq-server charm under another name
C6_Witness ==
    /\ Returned
    /\ call.fn = "get_upgrade_groups"
    /\ call.extra_filters = PyNone
    /\ \E e \in Deployed :
          e.charm = url_ceph_mon /\ e.options = {"source"} /\ e.app \in Members
    /\ \E e \in Deployed :
          /\ e.charm = url_rabbitmq
          /\ e.app # s_rabbitmq_server
          /\ ~IsSubordinate(e)
          /\ HasSourceOption(e)
          /\ e.app \notin Members

\* C7: get_series_upgrade_groups with no extra filters excludes subordinates only:
\* an application is absent if and only if its subordinate-to list is non-empty;
\* applications on the exclude list or without a source option are planned, and no
\* config lookup is made.
C7_SeriesUpgradeDefaults ==
    (Returned /\ call.fn = "get_series_upgrade_groups" /\ call.extra_filters = PyNone) =>
        /\ \A e \in Deployed : e.app \notin Members <=> IsSubordinate(e)
        /\ \A i \in 1..Len(calls) : calls[i].fn # "get_application_config"

\* a series-upgrade call that planned rabbitmq-server and an application without a
\* source option
C7_Witness ==
    /\ Returned
    /\ call.fn = "get_series_upgrade_groups"
    /\ call.extra_filters = PyNone
    /\ \E e \in Deployed : OnExcludeList(e) /\ e.app \in Members
    /\ \E e \in Deployed : ~HasSourceOption(e) /\ e.app \in Members

\* C8: get_charm_upgrade_groups installs no default filter: with no extra filters
\* every application of the status, subordinates included, is in exactly one group.
C8_CharmUpgradeNoDefaults ==
    (Returned /\ call.fn = "get_charm_upgrade_groups" /\ call.extra_filters = PyNone) =>
        /\ filters = <<>>
        /\ \A e \in Deployed : Occurrences(e.app) = 1

\* a charm-upgrade call that planned a subordinate and an application on the
\* exclude list
C8_Witness ==
    /\ Returned
    /\ call.fn = "get_charm_upgrade_groups"
    /\ call.extra_filters = PyNone
    /\ \E e \in Deployed : IsSubordinate(e) /\ Occurrences(e.app) = 1
    /\ \E e \in Deployed : OnExcludeList(e) /\ Occurrences(e.app) = 1

\* the default filters of each entry point, as the claims list them
DefaultsOf(fn) ==
    CASE fn = "get_upgrade_groups" ->
             <<"_filter_subordinates", "_filter_openstack_upgrade_list",
               "_filter_non_openstack_services">>
      [] fn = "get_series_upgrade_groups" -> <<"_filter_subordinates">>
      [] fn = "get_charm_upgrade_groups" -> <<>>

\* C9: for all three entry points, extra_filters given as one callable or as a list
\* of callables is appended after the default filters of the mode, and a value of
\* any other type fails with an error before any status is fetched or any group is
\* returned.
C9_ExtraFiltersAppendedOrRejected ==
    Called =>
        /\ call.extra_filters.type \in {"function", "list"} =>
              /\ result.raised = "none"
              /\ filters = DefaultsOf(call.fn) \o call.extra_filters.items
        /\ call.extra_filters.type \notin {"NoneType", "function", "list"} =>
              /\ result.raised = "RuntimeError"
              /\ calls = <<>>
              /\ result.groups = <<>>

\* the steps in the order the specification gives: strip the trailing -digits, then
\* the text after the last ':', then the text after the last '/'
ExtractInSpecOrder(charm_url) ==
    SplitLast(SplitLast(ReSubRevision(charm_url), ":"), "/")

\* a name that could not be read as name-revision
HasNoRevision(name) == ReSubRevision(name) = name

\* C10: for every charm URL of form scheme:series/name-revision, scheme:series/name
\* or scheme:name, extract_charm_name_from_url returns the bare charm name
\* (local:bionic/heat-12 gives heat, cs:heat gives heat), and for every string its
\* result is that of the specification's order of steps.
C10_ExtractCharmName ==
    extracted.called =>
        /\ extracted.charm_name = ExtractInSpecOrder(extracted.charm_url)
        /\ \A sc \in Schemes, se \in SeriesNames, n \in CharmNames, r \in Revisions :
              (HasNoRevision(n) /\ extracted.charm_url = CharmUrl(sc, se, n, r))
                 => extracted.charm_name = n
        /\ extracted.charm_url = url_heat => extracted.charm_name = s_heat
        /\ extracted.charm_url = url_cs_heat => extracted.charm_name = s_heat
        /\ \A i \in 1..Len(extracted.charm_name) :
              extracted.charm_name[i] \notin {"/", ":"}

\* heat was extracted from local:bionic/heat-12
C10_Witness ==
    /\ extracted.called
    /\ extracted.charm_url = url_heat
    /\ extracted.charm_name = s_heat

\* an application of the status whose 'charm' is a str no charm name can be read from
HasMalformedUrl(e) ==
    e.charm_type = "str" /\ extract_charm_name_from_url(e.charm) = <<>>

\* an application of the status with no 'charm', or with None for it
HasNoCharmUrl(e) == e.charm_type \in {"missing", "NoneType"}

\* C11: planning an application set in which some application has no charm URL or a
\* malformed charm URL does not fail: the entry point still returns its groups
\* (extra_filters of a wrong type apart).
C11_NoCharmUrlDoesNotFail ==
    (/\ Called
     /\ \E e \in Deployed : HasNoCharmUrl(e) \/ HasMalformedUrl(e))
        => result.raised \in {"none", "RuntimeError"}

\* a malformed or empty charm URL alone does not fail: the application ends in sweep_up
MalformedUrlSweptUp ==
    (/\ Called
     /\ result.raised \notin {"RuntimeError"}
     /\ \A e \in Deployed : ~HasNoCharmUrl(e))
        => /\ result.raised = "none"
           /\ \A e \in Deployed :
                 (HasMalformedUrl(e) /\ InList(e, candidates))
                    => InList(e.app, result.groups[Len(result.groups)][2])

\* the callables the chain of a call gets from its extra_filters argument
ExtrasOf(extra_filters) ==
    IF Truthy(extra_filters) /\ extra_filters.type \in {"function", "list"}
    THEN extra_filters.items
    ELSE <<>>

\* C12: the planner keeps no state between calls: on one status snapshot a call of an
\* entry point with the extra_filters of an earlier call of it builds the same chain,
\* keeps the same candidates and returns the same groups (or raises the same error),
\* whatever calls were made in between; the chain of a call is the defaults of its
\* mode followed by its own extra filters only, and the caller's extra_filters is
\* what it was before the call.
C12_NoStateBetweenCalls ==
    Called =>
        /\ (/\ earlier.set
            /\ earlier.call.fn = call.fn
            /\ earlier.call.extra_filters = call.extra_filters)
              => /\ result = earlier.result
                 /\ filters = earlier.filters
                 /\ candidates = earlier.candidates
        /\ result.raised = "none" =>
              filters = DefaultsOf(call.fn) \o ExtrasOf(call.extra_filters)
        /\ call.extra_filters_after = call.extra_filters

\* get_upgrade_groups with no extra filters returned the groups it returned earlier,
\* with an application placed, after a call of another mode or with other extra
\* filters in between
C12_Witness ==
    /\ Returned
    /\ earlier.set
    /\ earlier.other_between
    /\ earlier.call = call
    /\ call.fn = "get_upgrade_groups"
    /\ call.extra_filters = PyNone
    /\ result = earlier.result
    /\ Members # {}

----------------------------------------------------------------------------
(* validate_unit_process_ids *)

NamedErrors ==
    {"UnitCountMismatch", "UnitNotFound", "ProcessNameCountMismatch",
     "ProcessNameMismatch", "PIDCountMismatch"}

ExpectedUnits == DOMAIN validated.expected
ActualUnits == DOMAIN validated.actual

\* n PIDs are what the expected value e asks for
CountAccepted(e, n) ==
    \/ e.type = "int" /\ n = e.value
    \/ e.type = "list" /\ \E i \in 1..Len(e.items) : e.items[i] = n

\* the mismatches a pair of maps can show
UnitCountDiffers == Cardinality(ExpectedUnits) # Cardinality(ActualUnits)
UnitMissing == ExpectedUnits \ ActualUnits # {}
NameCountDiffers(unit) ==
    /\ unit \in ExpectedUnits \cap ActualUnits
    /\ Cardinality(DOMAIN validated.expected[unit])
          # Cardinality(DOMAIN validated.actual[unit])
NameMissing(unit) ==
    /\ unit \in ExpectedUnits \cap ActualUnits
    /\ DOMAIN validated.expected[unit] \ DOMAIN validated.actual[unit] # {}
PidCountDiffers(unit, process) ==
    /\ unit \in ExpectedUnits \cap ActualUnits
    /\ process \in DOMAIN validated.expected[unit] \cap DOMAIN validated.actual[unit]
    /\ ~CountAccepted(validated.expected[unit][process],
                      Len(validated.actual[unit][process]))

\* C13: validate_unit_process_ids returns true if and only if the expected and actual
\* maps have the same number of units, every expected unit is in actual, each unit
\* has the same number of process names with every expected name present, and every
\* PID count matches; in every other case it raises one of the named errors, and it
\* never returns a value other than true.
C13_TrueIffAllChecksPass ==
    validated.called =>
        /\ validated.outcome \in {"True"} \cup NamedErrors
        /\ validated.outcome = "True" <=>
              /\ Cardinality(ExpectedUnits) = Cardinality(ActualUnits)
              /\ \A unit \in ExpectedUnits :
                    /\ unit \in ActualUnits
                    /\ Cardinality(DOMAIN validated.expected[unit])
                          = Cardinality(DOMAIN validated.actual[unit])
                    /\ \A process \in DOMAIN validated.expected[unit] :
                          /\ process \in DOMAIN validated.actual[unit]
                          /\ CountAccepted(validated.expected[unit][process],
                                           Len(validated.actual[unit][process]))
        /\ validated.outcome = "True" =>
              /\ ExpectedUnits = ActualUnits
              /\ \A unit \in ExpectedUnits :
                    DOMAIN validated.expected[unit] = DOMAIN validated.actual[unit]

\* true was returned for two units, one of them with two processes
C13_Witness ==
    /\ validated.called
    /\ validated.outcome = "True"
    /\ Cardinality(ExpectedUnits) = 2
    /\ \E unit \in ExpectedUnits : DOMAIN validated.expected[unit] = ProcessNames

C15_PidCountShapes ==
    (validated.called /\ validated.outcome \in {"True", "PIDCountMismatch"}) =>
        /\ validated.outcome = "PIDCountMismatch" <=>
              \E unit \in ExpectedUnits :
                  \E process \in DOMAIN validated.expected[unit] :
                      LET e_pids == validated.expected[unit][process]
                          n == Len(validated.actual[unit][process])
                      IN  \/ e_pids.type = "int" /\ n # e_pids.value
                          \/ e_pids.type = "list" /\ n \notin ToSet(e_pids.items)
        /\ \A unit \in ExpectedUnits :
              \A process \in DOMAIN validated.expected[unit] :
                  LET e_pids == validated.expected[unit][process]
                      n == Len(validated.actual[unit][process])
                  IN  /\ (e_pids = PyIntList(<<1, 2>>) /\ n = 3)
                         => validated.outcome = "PIDCountMismatch"
                      /\ (e_pids = PyIntList(<<1, 2>>) /\ validated.outcome = "True")
                         => n \in {1, 2}
                      /\ (e_pids = PyInt(2) /\ validated.outcome = "True") => n = 2

\* true was returned for a unit whose two processes are both expected to have 1 or 2
\* PIDs, one having 1 and the other 2
C15_Witness ==
    /\ validated.called
    /\ validated.outcome = "True"
    /\ \E unit \in ExpectedUnits :
          /\ validated.expected[unit] = [process \in ProcessNames |-> PyIntList(<<1, 2>>)]
          /\ Len(validated.actual[unit]["pr1"]) = 1
          /\ Len(validated.actual[unit]["pr2"]) = 2

----------------------------------------------------------------------------
(* get_process_id_list *)

\* the characters of s other than blanks, in order
RECURSIVE WithoutBlanks(_)
WithoutBlanks(s) ==
    IF s = <<>>
    THEN <<>>
    ELSE (IF Head(s) = " " THEN <<>> ELSE <<Head(s)>>) \o WithoutBlanks(Tail(s))

\* the words of a list, one after the other
RECURSIVE Joined(_)
Joined(words) == IF words = <<>> THEN <<>> ELSE Head(words) \o Joined(Tail(words))

\* the positions of s at which a word starts
WordStarts(s) ==
    {i \in 1..Len(s) : s[i] # " " /\ (i = 1 \/ s[i - 1] = " ")}

\* C16: get_process_id_list returns the whitespace-separated PIDs of the remote
\* command's standard output when the result code is 0 (stdout "1 2" gives
\* ["1","2"]), and raises ProcessIdsFailed when the result code is non-zero and
\* expect_success is true; a failure is a ProcessIdsFailed error or nothing, never a
\* returned value that is not a list of PIDs.
C16_PidsOrProcessIdsFailed ==
    pid_list.called =>
        /\ pid_list.outcome \in {"returned", "ProcessIdsFailed"}
        /\ pid_list.code = 0 =>
              /\ pid_list.outcome = "returned"
              /\ Len(pid_list.pids) = Cardinality(WordStarts(pid_list.stdout))
              /\ Joined(pid_list.pids) = WithoutBlanks(pid_list.stdout)
        /\ (pid_list.code = 0 /\ pid_list.stdout = <<"1", " ", "2">>) =>
              pid_list.pids = << <<"1">>, <<"2">> >>
        /\ (pid_list.code # 0 /\ pid_list.expect_success) =>
              /\ pid_list.outcome = "ProcessIdsFailed"
              /\ pid_list.pids = <<>>
        /\ pid_list.outcome = "returned" =>
              \A i \in 1..Len(pid_list.pids) :
                  /\ pid_list.pids[i] # <<>>
                  /\ \A j \in 1..Len(pid_list.pids[i]) : pid_list.pids[i][j] # " "

\* ["1","2"] was returned for result code 0 and stdout "1 2"
C16_Witness ==
    /\ pid_list.called
    /\ pid_list.code = 0
    /\ pid_list.stdout = <<"1", " ", "2">>
    /\ pid_list.outcome = "returned"
    /\ pid_list.pids = << <<"1">>, <<"2">> >>

----------------------------------------------------------------------------
(* Order of the filter calls *)

\* the filters called for app, in the order of the calls
FiltersCalledFor(app) ==
    LET made == SelectSeq(calls, LAMBDA c : c.app = app /\ c.fn # "get_application_config")
    IN  [i \in 1..Len(made) |-> made[i].fn]

\* the position in the chain of the first filter that returns true for e, the length
\* of the chain when none does
FirstExcluding(e) ==
    LET excluding == {i \in 1..Len(filters) : CallFilter(filters[i], e.app, e)}
    IN  IF excluding = {}
        THEN Len(filters)
        ELSE CHOOSE i \in excluding : \A j \in excluding : i <= j

ConfigLookedUp(app) ==
    \E i \in 1..Len(calls) : calls[i] = [fn |-> "get_application_config", app |-> app]

\* C17: for each application the filters are called in chain order (the defaults of
\* the mode, then the caller's extra filters in the order given) up to the first one
\* that returns true and no further, so in full-upgrade planning
\* _filter_non_openstack_services does not look up the config of an application that
\* is a subordinate or on the exclude list.
C17_FiltersInOrderUntilFirstTrue ==
    Returned =>
        /\ filters = DefaultsOf(call.fn) \o ExtrasOf(call.extra_filters)
        /\ \A e \in Deployed :
              /\ FiltersCalledFor(e.app) = SubSeq(filters, 1, FirstExcluding(e))
              /\ ConfigLookedUp(e.app) <=>
                    \E i \in 1..FirstExcluding(e) :
                        filters[i] = "_filter_non_openstack_services"
        /\ call.fn = "get_upgrade_groups" =>
              \A e \in Deployed :
                  (IsSubordinate(e) \/ OnExcludeList(e)) => ~ConfigLookedUp(e.app)

\* full-upgrade planning with extra filters stopped at the exclude-list filter for
\* one application, without a config lookup, and went through the whole chain for
\* another, config lookup included
C17_Witness ==
    /\ Returned
    /\ call.fn = "get_upgrade_groups"
    /\ ExtrasOf(call.extra_filters) # <<>>
    /\ \E e \in Deployed :
          /\ OnExcludeList(e)
          /\ FiltersCalledFor(e.app)
                = <<"_filter_subordinates", "_filter_openstack_upgrade_list">>
          /\ ~ConfigLookedUp(e.app)
    /\ \E e \in Deployed :
          /\ FiltersCalledFor(e.app) = filters
          /\ ConfigLookedUp(e.app)

----------------------------------------------------------------------------
(* The exclude list in full-upgrade planning *)

\* the charm names of the applications of the named group of the result
CharmsInGroup(name) ==
    { extract_charm_name_from_url(e.charm) :
          e \in {d \in Deployed : d.app \in ToSet(result.groups[PhaseIndex(name)][2])} }

\* C18: in full-upgrade planning the exclude list is matched against the application
\* name and against the extracted charm name: no application whose charm name or
\* application name is rabbitmq-server or percona-cluster is in any group, so
\* Stateful Services holds ceph-mon applications only and Database Services
\* mysql-innodb-cluster applications only, and an application merely named like an
\* excluded charm is dropped even when it runs another charm.
C18_ExcludeListByNameAndCharm ==
    (Returned /\ call.fn = "get_upgrade_groups") =>
        /\ \A e \in Deployed :
              (\/ e.app \in {s_rabbitmq_server, s_percona_cluster}
               \/ extract_charm_name_from_url(e.charm)
                     \in {s_rabbitmq_server, s_percona_cluster})
                 => e.app \notin Members
        /\ result.groups[PhaseIndex("Stateful Services")][1] = "Stateful Services"
        /\ result.groups[PhaseIndex("Database Services")][1] = "Database Services"
        /\ CharmsInGroup("Stateful Services") \subseteq {s_ceph_mon}
        /\ CharmsInGroup("Database Services") \subseteq {s_mysql_innodb_cluster}

\* full-upgrade planning dropped an application named rabbitmq-server that runs heat
\* and placed an application running mysql-innodb-cluster in Database Services
C18_Witness ==
    /\ Returned
    /\ call.fn = "get_upgrade_groups"
    /\ \E e \in Deployed :
          /\ e.app = s_rabbitmq_server
          /\ extract_charm_name_from_url(e.charm) = s_heat
          /\ e.app \notin Members
    /\ \E e \in Deployed :
          /\ extract_charm_name_from_url(e.charm) = s_mysql_innodb_cluster
          /\ e.app \in ToSet(result.groups[PhaseIndex("Database Services")][2])

====
